---- MODULE Spec2Model ----
(***************************************************************************)
(* The limit order book of yolo_core: Order, Limit (one price level with   *)
(* its identity index and its arrival-order index), OrderBook (asks, bids, *)
(* per-side aggregate volumes, order_index) and the three public           *)
(* operations place_limit_order, cancel_order and place_market_order; and   *)
(* the handlers of yolo_server that call them on the shared ServerState.   *)
(* Decimal quantities are modelled as non-negative integers (a fixed scale *)
(* of the decimal), Uuids as integers compared as the Uuids are.           *)
(***************************************************************************)
EXTENDS Integers, Sequences, FiniteSets, TLC

\* Bounds of the model.
MaxOrders == 3
MaxPrice == 2
MaxSize == 2
MaxTime == 2
MaxRequests == 3

Ids == 1..MaxOrders
Prices == 1..MaxPrice
Sizes == 0..MaxSize
Timestamps == 1..MaxTime
Requests == 1..MaxRequests

VARIABLES
    asks,              \* OrderBook.asks: price -> Limit, iterated ascending
    bids,              \* OrderBook.bids: price -> Limit, iterated descending (Reverse key)
    ask_total_volume,  \* OrderBook.ask_total_volume
    bid_total_volume,  \* OrderBook.bid_total_volume
    order_index,       \* OrderBook.order_index: id -> <<side, price>>
    used,              \* ids already given to an Order (Uuid::new_v4 never repeats)
    placed,            \* id -> the price, side and size place_limit_order was called with
    last,              \* the last call: its arguments and what it returned
    state_lock,        \* the RwLock of SharedServerState: its writer and its readers
    requests,          \* request -> the handler serving it, where it is, its locals
    lim                \* a Limit on its own, as limit.rs's tests build one

vars == <<asks, bids, ask_total_volume, bid_total_volume, order_index, used, placed, last,
          state_lock, requests, lim>>

----------------------------------------------------------------------------
\* Side

Side == {"Bid", "Ask"}

opposite(side) == IF side = "Bid" THEN "Ask" ELSE "Bid"

----------------------------------------------------------------------------
\* Order

Order(id, side, size, timestamp) ==
    [id |-> id, side |-> side, size |-> size, timestamp |-> timestamp]

NoOrder == [id |-> 0, side |-> "None", size |-> 0, timestamp |-> 0]

is_filled(order) == order.size = 0

\* An Ord for OrderByTimestamp that compares the ids first.
cmp_id_first(a, b) ==
    IF a.id < b.id THEN "Less"
    ELSE IF a.id > b.id THEN "Greater"
    ELSE IF a.timestamp < b.timestamp THEN "Less"
    ELSE IF a.timestamp > b.timestamp THEN "Greater"
    ELSE "Equal"

\* Ord for OrderByTimestamp: timestamp first, then id.
cmp(a, b) ==
    IF a.timestamp < b.timestamp THEN "Less"
    ELSE IF a.timestamp > b.timestamp THEN "Greater"
    ELSE IF a.id < b.id THEN "Less"
    ELSE IF a.id > b.id THEN "Greater"
    ELSE "Equal"

----------------------------------------------------------------------------
\* HashMap / BTreeSet / BTreeMap primitives

EmptyMap == [k \in {} |-> NoOrder]

MapInsert(m, k, v) == [x \in (DOMAIN m) \cup {k} |-> IF x = k THEN v ELSE m[x]]

MapRemove(m, k) == [x \in (DOMAIN m) \ {k} |-> m[x]]

\* BTreeSet::insert keeps the element already there when the keys compare Equal.
BTreeInsert(s, e) == IF \E x \in s : cmp(x, e) = "Equal" THEN s ELSE s \cup {e}

\* BTreeSet::remove drops the element whose key compares Equal.
BTreeRemove(s, e) == {x \in s : cmp(x, e) # "Equal"}

RECURSIVE Ascending(_)
Ascending(S) ==
    IF S = {} THEN <<>>
    ELSE LET m == CHOOSE x \in S : \A y \in S : x <= y
         IN <<m>> \o Ascending(S \ {m})

RECURSIVE Descending(_)
Descending(S) ==
    IF S = {} THEN <<>>
    ELSE LET m == CHOOSE x \in S : \A y \in S : x >= y
         IN <<m>> \o Descending(S \ {m})

\* The iteration orders HashMaps holding the keys S can have: any order of S.
IterationOrders(S) ==
    {p \in [1..Cardinality(S) -> S] : \A i, j \in 1..Cardinality(S) : p[i] = p[j] => i = j}

----------------------------------------------------------------------------
\* Limit

LimitNew(price) ==
    [price |-> price, orders_by_uuid |-> EmptyMap,
     orders_by_timestamp |-> {}, total_volume |-> 0]

\* An add_order that leaves total_volume as it was.
add_order_keeps_volume(limit, order) ==
    [limit EXCEPT !.orders_by_uuid = MapInsert(@, order.id, order),
                  !.orders_by_timestamp = BTreeInsert(@, order)]

add_order(limit, order) ==
    [limit EXCEPT !.orders_by_uuid = MapInsert(@, order.id, order),
                  !.orders_by_timestamp = BTreeInsert(@, order),
                  !.total_volume = @ + order.size]

\* A remove_order that hands back the copy kept in orders_by_timestamp.
remove_order_returns_clone(limit, id) ==
    IF id \in DOMAIN limit.orders_by_uuid
    THEN LET order == CHOOSE o \in limit.orders_by_timestamp :
                         cmp(o, limit.orders_by_uuid[id]) = "Equal"
         IN [limit |-> [limit EXCEPT !.orders_by_uuid = MapRemove(@, id),
                                     !.orders_by_timestamp = BTreeRemove(@, order),
                                     !.total_volume = @ - order.size],
             found |-> TRUE, removed |-> order]
    ELSE [limit |-> limit, found |-> FALSE, removed |-> NoOrder]

\* A remove_order that takes the order out of orders_by_uuid only.
remove_order_keeps_timestamp(limit, id) ==
    IF id \in DOMAIN limit.orders_by_uuid
    THEN LET order == limit.orders_by_uuid[id]
         IN [limit |-> [limit EXCEPT !.orders_by_uuid = MapRemove(@, id),
                                     !.total_volume = @ - order.size],
             found |-> TRUE, removed |-> order]
    ELSE [limit |-> limit, found |-> FALSE, removed |-> NoOrder]

\* A remove_order that takes the order out of orders_by_timestamp only.
remove_order_keeps_uuid(limit, id) ==
    IF id \in DOMAIN limit.orders_by_uuid
    THEN LET order == limit.orders_by_uuid[id]
         IN [limit |-> [limit EXCEPT !.orders_by_timestamp = BTreeRemove(@, order),
                                     !.total_volume = @ - order.size],
             found |-> TRUE, removed |-> order]
    ELSE [limit |-> limit, found |-> FALSE, removed |-> NoOrder]

\* Option<Order> is the pair (found, removed).
remove_order(limit, id) ==
    IF id \in DOMAIN limit.orders_by_uuid
    THEN LET order == limit.orders_by_uuid[id]
         IN [limit |-> [limit EXCEPT !.orders_by_uuid = MapRemove(@, id),
                                     !.orders_by_timestamp = BTreeRemove(@, order),
                                     !.total_volume = @ - order.size],
             found |-> TRUE, removed |-> order]
    ELSE [limit |-> limit, found |-> FALSE, removed |-> NoOrder]

is_empty(limit) == DOMAIN limit.orders_by_uuid = {}

\* A match_bid_ask that reports the bid's size as filled when the ask is the
\* smaller order.
match_bid_ask_fills_bid_size(bid, ask, price) ==
    IF ask.size >= bid.size
    THEN [bid |-> [bid EXCEPT !.size = 0],
          ask |-> [ask EXCEPT !.size = ask.size - bid.size],
          match |-> [ask |-> [ask EXCEPT !.size = ask.size - bid.size],
                     bid |-> [bid EXCEPT !.size = 0],
                     size_filled |-> bid.size, price |-> price]]
    ELSE [bid |-> [bid EXCEPT !.size = bid.size - ask.size],
          ask |-> [ask EXCEPT !.size = 0],
          match |-> [ask |-> [ask EXCEPT !.size = 0],
                     bid |-> [bid EXCEPT !.size = bid.size - ask.size],
                     size_filled |-> bid.size, price |-> price]]

\* A match_bid_ask whose OrderMatch clones the two orders before it changes
\* their sizes.
match_bid_ask_clones_before(bid, ask, price) ==
    IF ask.size >= bid.size
    THEN [bid |-> [bid EXCEPT !.size = 0],
          ask |-> [ask EXCEPT !.size = ask.size - bid.size],
          match |-> [ask |-> ask, bid |-> bid,
                     size_filled |-> bid.size, price |-> price]]
    ELSE [bid |-> [bid EXCEPT !.size = bid.size - ask.size],
          ask |-> [ask EXCEPT !.size = 0],
          match |-> [ask |-> ask, bid |-> bid,
                     size_filled |-> ask.size, price |-> price]]

\* The body of match_orders once bid and ask are told apart: the two sizes after
\* the fill and the OrderMatch built from the two orders as they are then.
match_bid_ask(bid, ask, price) ==
    IF ask.size >= bid.size
    THEN [bid |-> [bid EXCEPT !.size = 0],
          ask |-> [ask EXCEPT !.size = ask.size - bid.size],
          match |-> [ask |-> [ask EXCEPT !.size = ask.size - bid.size],
                     bid |-> [bid EXCEPT !.size = 0],
                     size_filled |-> bid.size, price |-> price]]
    ELSE [bid |-> [bid EXCEPT !.size = bid.size - ask.size],
          ask |-> [ask EXCEPT !.size = 0],
          match |-> [ask |-> [ask EXCEPT !.size = 0],
                     bid |-> [bid EXCEPT !.size = bid.size - ask.size],
                     size_filled |-> ask.size, price |-> price]]

\* order1 and order2 as match_bid_ask left them.
matched_as_bid(m) == [order1 |-> m.bid, order2 |-> m.ask, match |-> m.match]
matched_as_ask(m) == [order1 |-> m.ask, order2 |-> m.bid, match |-> m.match]

\* order1 is the incoming order, order2 the resident one; the two sides differ
\* (the remaining arm is unreachable!()).
match_orders(order1, order2, price) ==
    CASE order1.side = "Bid" /\ order2.side = "Ask" ->
            matched_as_bid(match_bid_ask(order1, order2, price))
      [] order1.side = "Ask" /\ order2.side = "Bid" ->
            matched_as_ask(match_bid_ask(order2, order1, price))

\* The order in which fill visits the resident orders: self.orders_by_uuid.iter_mut(),
\* the HashMap's iteration order, which is the order `iter` induces on the residents.
fill_iteration(limit, iter) ==
    SelectSeq(iter, LAMBDA id : id \in DOMAIN limit.orders_by_uuid)

\* The first loop of fill over the ids still to visit: fill_loop is the loop
\* head, fill_matched one pass of its body, given what match_orders returned
\* for the resident order Head(todo), up to the break.
RECURSIVE fill_loop(_, _, _, _, _, _)
RECURSIVE fill_matched(_, _, _, _, _, _)

fill_loop(orders, price, order, todo, matches, filled_order_ids) ==
    IF todo = <<>>
    THEN [orders |-> orders, order |-> order, matches |-> matches,
          filled_order_ids |-> filled_order_ids]
    ELSE fill_matched(orders, price, todo, matches, filled_order_ids,
                      match_orders(order, orders[Head(todo)], price))

\* A fill whose loop has no break: it goes on over the resident orders after
\* the incoming order is filled.
fill_matched_no_break(orders, price, todo, matches, filled_order_ids, m) ==
    fill_loop([orders EXCEPT ![Head(todo)] = m.order2], price, m.order1,
              Tail(todo), Append(matches, m.match),
              IF is_filled(m.order2)
              THEN Append(filled_order_ids, Head(todo))
              ELSE filled_order_ids)

fill_matched(orders, price, todo, matches, filled_order_ids, m) ==
    IF is_filled(m.order1)
    THEN [orders |-> [orders EXCEPT ![Head(todo)] = m.order2],
          order |-> m.order1,
          matches |-> Append(matches, m.match),
          filled_order_ids |-> IF is_filled(m.order2)
                               THEN Append(filled_order_ids, Head(todo))
                               ELSE filled_order_ids]
    ELSE fill_loop([orders EXCEPT ![Head(todo)] = m.order2], price, m.order1,
                   Tail(todo), Append(matches, m.match),
                   IF is_filled(m.order2)
                   THEN Append(filled_order_ids, Head(todo))
                   ELSE filled_order_ids)

\* A fill without its second loop: the filled orders stay in the Limit.
remove_filled_skips(limit, ids) == limit

\* The second loop of fill: remove_order for every id in filled_order_ids.
RECURSIVE remove_filled(_, _)
remove_filled(limit, ids) ==
    IF ids = <<>> THEN limit
    ELSE remove_filled(remove_order(limit, Head(ids)).limit, Tail(ids))

\* What fill leaves and returns, `l` being what its first loop ended with.
fill_removed(limit, l) ==
    [limit |-> remove_filled([limit EXCEPT !.orders_by_uuid = l.orders],
                             l.filled_order_ids),
     order |-> l.order, matches |-> l.matches]

\* A fill that hands match_orders the Limit's total_volume for its price.
fill_prices_by_volume(limit, order, iter) ==
    fill_removed(limit,
                 fill_loop(limit.orders_by_uuid, limit.total_volume, order,
                           fill_iteration(limit, iter), <<>>, <<>>))

fill(limit, order, iter) ==
    fill_removed(limit,
                 fill_loop(limit.orders_by_uuid, limit.price, order,
                           fill_iteration(limit, iter), <<>>, <<>>))

----------------------------------------------------------------------------
\* OrderBook

Book ==
    [asks |-> asks, bids |-> bids,
     ask_total_volume |-> ask_total_volume, bid_total_volume |-> bid_total_volume,
     order_index |-> order_index]

OrderBookNew ==
    [asks |-> [p \in {} |-> LimitNew(p)], bids |-> [p \in {} |-> LimitNew(p)],
     ask_total_volume |-> 0, bid_total_volume |-> 0,
     order_index |-> [k \in {} |-> <<"None", 0>>]]

Ok == [kind |-> "Ok"]
OrderNotFound(id) == [kind |-> "OrderNotFound", id |-> id]
NotEnoughVolume(side, expected_volume, actual_volume) ==
    [kind |-> "NotEnoughVolume", side |-> side,
     expected_volume |-> expected_volume, actual_volume |-> actual_volume]

\* An ensure_volume that reads the incoming order's own side.
ensure_volume_own_side(book, order) ==
    LET total_volume == IF order.side = "Bid" THEN book.bid_total_volume
                        ELSE book.ask_total_volume
    IN IF order.size > total_volume
       THEN NotEnoughVolume(order.side, order.size, total_volume)
       ELSE Ok

\* An ensure_volume that also rejects a size equal to the volume.
ensure_volume_rejects_equal(book, order) ==
    LET total_volume == IF order.side = "Bid" THEN book.ask_total_volume
                        ELSE book.bid_total_volume
    IN IF order.size >= total_volume
       THEN NotEnoughVolume(order.side, order.size, total_volume)
       ELSE Ok

ensure_volume(book, order) ==
    LET total_volume == IF order.side = "Bid" THEN book.ask_total_volume
                        ELSE book.bid_total_volume
    IN IF order.size > total_volume
       THEN NotEnoughVolume(order.side, order.size, total_volume)
       ELSE Ok

\* A cancel_bid_order that forgets the aggregate volume.
cancel_bid_removed_keeps_volume(book, price, r) ==
    IF ~r.found
    THEN [book |-> book, found |-> FALSE, removed |-> NoOrder]
    ELSE [book |-> [book EXCEPT
             !.bids = IF is_empty(r.limit) THEN MapRemove(@, price)
                      ELSE [@ EXCEPT ![price] = r.limit]],
          found |-> TRUE, removed |-> r.removed]

\* Option<Order> is the pair (found, removed); `?` returns None with what was
\* done so far kept. cancel_bid_removed is cancel_bid_order from the result `r`
\* of limit.remove_order(id) on.
cancel_bid_removed(book, price, r) ==
    IF ~r.found
    THEN [book |-> book, found |-> FALSE, removed |-> NoOrder]
    ELSE [book |-> [book EXCEPT
             !.bid_total_volume = @ - r.removed.size,
             !.bids = IF is_empty(r.limit) THEN MapRemove(@, price)
                      ELSE [@ EXCEPT ![price] = r.limit]],
          found |-> TRUE, removed |-> r.removed]

cancel_bid_order(book, id, price) ==
    IF price \notin DOMAIN book.bids
    THEN [book |-> book, found |-> FALSE, removed |-> NoOrder]
    ELSE cancel_bid_removed(book, price, remove_order(book.bids[price], id))

\* cancel_ask_order from the result `r` of limit.remove_order(id) on.
cancel_ask_removed(book, price, r) ==
    IF ~r.found
    THEN [book |-> book, found |-> FALSE, removed |-> NoOrder]
    ELSE [book |-> [book EXCEPT
             !.ask_total_volume = @ - r.removed.size,
             !.asks = IF is_empty(r.limit) THEN MapRemove(@, price)
                      ELSE [@ EXCEPT ![price] = r.limit]],
          found |-> TRUE, removed |-> r.removed]

cancel_ask_order(book, id, price) ==
    IF price \notin DOMAIN book.asks
    THEN [book |-> book, found |-> FALSE, removed |-> NoOrder]
    ELSE cancel_ask_removed(book, price, remove_order(book.asks[price], id))

\* cancel_order's last line: cancelled_oreder.ok_or(OrderNotFound(id)).
cancel_ok_or(id, cancelled_oreder) ==
    IF cancelled_oreder.found
    THEN [book |-> cancelled_oreder.book, result |-> Ok,
          order |-> cancelled_oreder.removed]
    ELSE [book |-> cancelled_oreder.book, result |-> OrderNotFound(id),
          order |-> NoOrder]

cancel_order(book, id) ==
    IF id \notin DOMAIN book.order_index
    THEN [book |-> book, result |-> OrderNotFound(id), order |-> NoOrder]
    ELSE IF book.order_index[id][1] = "Bid"
         THEN cancel_ok_or(id, cancel_bid_order(
                  [book EXCEPT !.order_index = MapRemove(@, id)],
                  id, book.order_index[id][2]))
         ELSE cancel_ok_or(id, cancel_ask_order(
                  [book EXCEPT !.order_index = MapRemove(@, id)],
                  id, book.order_index[id][2]))

RECURSIVE SumSizeFilled(_)
SumSizeFilled(matches) ==
    IF matches = <<>> THEN 0
    ELSE Head(matches).size_filled + SumSizeFilled(Tail(matches))

\* The walk over one side's Limits, `keys` being the BTreeMap's keys in its
\* iteration order, up to the pruning of the emptied levels.
\* sweep is the loop head, sweep_filled the rest of one pass given what
\* limit.fill(order) did to the Limit at Head(keys) and returned.
RECURSIVE sweep(_, _, _, _, _, _, _)
RECURSIVE sweep_filled(_, _, _, _, _, _, _)

\* A walk without the break on order.is_filled(): it visits every Limit.
sweep_walks_all(limits, total_volume, order, keys, matches, empty_price_leves, iter) ==
    IF keys = <<>>
    THEN [limits |-> limits, total_volume |-> total_volume, order |-> order,
          matches |-> matches, empty_price_leves |-> empty_price_leves]
    ELSE sweep_filled(limits, total_volume, keys, matches, empty_price_leves, iter,
                      fill(limits[Head(keys)], order, iter))

sweep(limits, total_volume, order, keys, matches, empty_price_leves, iter) ==
    IF keys = <<>> \/ is_filled(order)
    THEN [limits |-> limits, total_volume |-> total_volume, order |-> order,
          matches |-> matches, empty_price_leves |-> empty_price_leves]
    ELSE sweep_filled(limits, total_volume, keys, matches, empty_price_leves, iter,
                      fill(limits[Head(keys)], order, iter))

\* A walk that leaves the side's aggregate volume as it was.
sweep_filled_keeps_volume(limits, total_volume, keys, matches, empty_price_leves, iter, f) ==
    sweep([limits EXCEPT ![Head(keys)] = f.limit],
          total_volume,
          f.order,
          Tail(keys),
          matches \o f.matches,
          IF is_empty(f.limit) THEN Append(empty_price_leves, Head(keys))
          ELSE empty_price_leves,
          iter)

sweep_filled(limits, total_volume, keys, matches, empty_price_leves, iter, f) ==
    sweep([limits EXCEPT ![Head(keys)] = f.limit],
          total_volume - SumSizeFilled(f.matches),
          f.order,
          Tail(keys),
          matches \o f.matches,
          IF is_empty(f.limit) THEN Append(empty_price_leves, Head(keys))
          ELSE empty_price_leves,
          iter)

\* The ids resident in the Limits of one side.
ResidentIds(limits) == UNION {DOMAIN limits[p].orders_by_uuid : p \in DOMAIN limits}

RemoveLevels(limits, prices) ==
    [p \in (DOMAIN limits) \ {prices[i] : i \in DOMAIN prices} |-> limits[p]]

\* The end of place_market_bid_order, `s` being what the walk over asks ended
\* with: prune the emptied levels and return the Matches.
market_bid_pruned(book, s) ==
    [book |-> [book EXCEPT !.asks = RemoveLevels(s.limits, s.empty_price_leves),
                           !.ask_total_volume = s.total_volume],
     order |-> s.order, result |-> Ok, matches |-> s.matches]

\* The same without the pruning.
market_bid_unpruned(book, s) ==
    [book |-> [book EXCEPT !.asks = s.limits,
                           !.ask_total_volume = s.total_volume],
     order |-> s.order, result |-> Ok, matches |-> s.matches]

\* A place_market_bid_order that leaves the emptied price levels in asks.
place_market_bid_order_keeps_levels(book, order, iter) ==
    market_bid_unpruned(book,
        sweep(book.asks, book.ask_total_volume, order,
              Ascending(DOMAIN book.asks), <<>>, <<>>, iter))

place_market_bid_order(book, order, iter) ==
    market_bid_pruned(book,
        sweep(book.asks, book.ask_total_volume, order,
              Ascending(DOMAIN book.asks), <<>>, <<>>, iter))

\* The end of place_market_ask_order, `s` being what the walk over bids ended with.
market_ask_pruned(book, s) ==
    [book |-> [book EXCEPT !.bids = RemoveLevels(s.limits, s.empty_price_leves),
                           !.bid_total_volume = s.total_volume],
     order |-> s.order, result |-> Ok, matches |-> s.matches]

\* A place_market_ask_order that walks bids without the Reverse key: ascending.
place_market_ask_order_ascending(book, order, iter) ==
    market_ask_pruned(book,
        sweep(book.bids, book.bid_total_volume, order,
              Ascending(DOMAIN book.bids), <<>>, <<>>, iter))

place_market_ask_order(book, order, iter) ==
    market_ask_pruned(book,
        sweep(book.bids, book.bid_total_volume, order,
              Descending(DOMAIN book.bids), <<>>, <<>>, iter))

\* The rejected order entered on its own side at the highest price.
place_limit_order_at_best(book, order) ==
    IF order.side = "Ask"
    THEN [book EXCEPT
            !.order_index = MapInsert(@, order.id, <<order.side, MaxPrice>>),
            !.ask_total_volume = @ + order.size,
            !.asks = MapInsert(@, MaxPrice,
                               add_order(IF MaxPrice \in DOMAIN @ THEN @[MaxPrice]
                                         ELSE LimitNew(MaxPrice), order))]
    ELSE [book EXCEPT
            !.order_index = MapInsert(@, order.id, <<order.side, MaxPrice>>),
            !.bid_total_volume = @ + order.size,
            !.bids = MapInsert(@, MaxPrice,
                               add_order(IF MaxPrice \in DOMAIN @ THEN @[MaxPrice]
                                         ELSE LimitNew(MaxPrice), order))]

\* A place_market_order that leaves the order it rejects resting in the book.
market_ensured_rests(book, order, iter, e) ==
    IF e.kind # "Ok"
    THEN [book |-> place_limit_order_at_best(book, order), order |-> order,
          result |-> e, matches |-> <<>>]
    ELSE IF order.side = "Bid" THEN place_market_bid_order(book, order, iter)
         ELSE place_market_ask_order(book, order, iter)

\* place_market_order from the result `e` of self.ensure_volume(order) on.
market_ensured(book, order, iter, e) ==
    IF e.kind # "Ok"
    THEN [book |-> book, order |-> order, result |-> e, matches |-> <<>>]
    ELSE IF order.side = "Bid" THEN place_market_bid_order(book, order, iter)
         ELSE place_market_ask_order(book, order, iter)

place_market_order(book, order, iter) ==
    market_ensured(book, order, iter, ensure_volume(book, order))

\* An insert of a new Limit in place of entry().or_insert_with(): the Limit
\* already at the price is replaced.
entry_add_order_replaces(limits, price, order) ==
    MapInsert(limits, price, add_order(LimitNew(price), order))

\* entry(key).or_insert_with(|| Limit::new(price)).add_order(order)
entry_add_order(limits, price, order) ==
    MapInsert(limits, price,
              add_order(IF price \in DOMAIN limits THEN limits[price] ELSE LimitNew(price),
                        order))

\* A place_limit_order that indexes the order under the opposite side.
place_limit_order_indexes_opposite(book, price, order) ==
    IF order.side = "Ask"
    THEN [book EXCEPT
            !.order_index = MapInsert(@, order.id, <<opposite(order.side), price>>),
            !.ask_total_volume = @ + order.size,
            !.asks = entry_add_order(@, price, order)]
    ELSE [book EXCEPT
            !.order_index = MapInsert(@, order.id, <<opposite(order.side), price>>),
            !.bid_total_volume = @ + order.size,
            !.bids = entry_add_order(@, price, order)]

place_limit_order(book, price, order) ==
    IF order.side = "Ask"
    THEN [book EXCEPT
            !.order_index = MapInsert(@, order.id, <<order.side, price>>),
            !.ask_total_volume = @ + order.size,
            !.asks = entry_add_order(@, price, order)]
    ELSE [book EXCEPT
            !.order_index = MapInsert(@, order.id, <<order.side, price>>),
            !.bid_total_volume = @ + order.size,
            !.bids = entry_add_order(@, price, order)]

----------------------------------------------------------------------------
\* The state machine: one action per public operation of OrderBook.

SetBook(book) ==
    /\ asks' = book.asks
    /\ bids' = book.bids
    /\ ask_total_volume' = book.ask_total_volume
    /\ bid_total_volume' = book.bid_total_volume
    /\ order_index' = book.order_index

Call(op, order, price, result, matches, out) ==
    [op |-> op, order |-> order, price |-> price, result |-> result,
     matches |-> matches, out |-> out]

\* The RwLock held by nobody.
Unlocked == [writer |-> 0, readers |-> {}]

\* A request no handler has been called for yet.
NoRequest ==
    [handler |-> "none", pc |-> "idle", payload |-> [side |-> "None", size |-> 0],
     order |-> NoOrder, price |-> 0, matches |-> <<>>, empty_price_leves |-> <<>>,
     response |-> [status |-> "none"]]

Init ==
    /\ asks = OrderBookNew.asks
    /\ bids = OrderBookNew.bids
    /\ ask_total_volume = OrderBookNew.ask_total_volume
    /\ bid_total_volume = OrderBookNew.bid_total_volume
    /\ order_index = OrderBookNew.order_index
    /\ used = {}
    /\ placed = [k \in {} |-> [price |-> 0, side |-> "None", size |-> 0]]
    /\ last = Call("new", NoOrder, 0, Ok, <<>>, NoOrder)
    /\ state_lock = Unlocked
    /\ requests = [r \in Requests |-> NoRequest]
    /\ lim = LimitNew(0)

\* Order::new gives the order a fresh id (Uuid::new_v4): the next one not yet used.
\* Its timestamp is the clock's reading when it was built, which need not follow
\* the order of the calls on the book.
FreshIds == {id \in Ids : id = Cardinality(used) + 1}

\* The call place_limit_order(price, order) on the book.
LimitOrderPlaced(price, order) ==
    /\ SetBook(place_limit_order(Book, price, order))
    /\ used' = used \cup {order.id}
    /\ placed' = MapInsert(placed, order.id,
                           [price |-> price, side |-> order.side, size |-> order.size])
    /\ last' = Call("place_limit_order", order, price, Ok, <<>>, order)
    /\ UNCHANGED <<state_lock, requests, lim>>

PlaceLimitOrder ==
    \E id \in FreshIds, side \in Side, size \in Sizes,
       timestamp \in Timestamps, price \in Prices :
        LimitOrderPlaced(price, Order(id, side, size, timestamp))

\* The call cancel_order(id) on the book, `r` being what it did and returned.
OrderCancelled(id, r) ==
    /\ SetBook(r.book)
    /\ last' = Call("cancel_order", [NoOrder EXCEPT !.id = id], 0,
                    r.result, <<>>, r.order)
    /\ UNCHANGED <<used, placed, state_lock, requests, lim>>

CancelOrder ==
    \E id \in Ids : OrderCancelled(id, cancel_order(Book, id))

\* The call place_market_order(&mut order) on the book, `r` being what it did
\* and returned.
MarketOrderPlaced(order, r) ==
    /\ SetBook(r.book)
    /\ used' = used \cup {order.id}
    /\ last' = Call("place_market_order", order, 0, r.result, r.matches, r.order)
    /\ UNCHANGED <<placed, state_lock, requests, lim>>

PlaceMarketOrder ==
    \E id \in FreshIds, side \in Side, size \in Sizes, timestamp \in Timestamps :
      \E iter \in IterationOrders(ResidentIds(IF side = "Bid" THEN asks ELSE bids)) :
        MarketOrderPlaced(Order(id, side, size, timestamp),
                          place_market_order(Book, Order(id, side, size, timestamp), iter))

Next ==
    \/ PlaceLimitOrder
    \/ CancelOrder
    \/ PlaceMarketOrder

Spec == Init /\ [][Next]_vars

----------------------------------------------------------------------------
\* yolo_server: the handlers of api.rs on SharedServerState = Arc<RwLock<ServerState>>.
\* A handler takes the lock in its first statement and the guard lives to the
\* end of the function. The engine calls are taken statement by statement, so
\* that the states inside a call exist in the model. The payload and the path
\* of a request are drawn where the handler first reads them.

\* The keys looked up in ServerState.exchange; the default state holds "usdt_eth".
Pairs == {"usdt_eth", "btc_eth"}

\* ServerState::default(): one book with one resting ask (size 10.0 at price
\* 100.0 in the source; the largest size at the highest price of the model).
ServerStateDefault(timestamp) ==
    place_limit_order(OrderBookNew, MaxPrice, Order(1, "Ask", MaxSize, timestamp))

\* models::Order::from((order, price))
ModelOrder(order, price) ==
    [id |-> order.id, price |-> price, size |-> order.size,
     timestamp |-> order.timestamp]

\* The orders of one side as the snapshot lists them (the Vec's order within a
\* Limit is the HashMap's; the orders are kept as a set).
ModelOrders(limits) ==
    UNION {{ModelOrder(limits[p].orders_by_uuid[id], p) :
              id \in DOMAIN limits[p].orders_by_uuid} : p \in DOMAIN limits}

\* models::OrderBook::from(order_book)
ModelOrderBook(book) ==
    [asks |-> ModelOrders(book.asks), bids |-> ModelOrders(book.bids),
     ask_total_volume |-> book.ask_total_volume,
     bid_total_volume |-> book.bid_total_volume]

\* models::MatchedOrder::from((order_match, order))
MatchedOrder(order_match, order) ==
    [id |-> IF order.side = "Bid" THEN order_match.ask.id ELSE order_match.bid.id,
     price |-> order_match.price, size |-> order_match.size_filled]

\* The walk of place_market_bid_order / place_market_ask_order done and the
\* emptied levels not yet removed, `s` being what the walk ended with.
market_bid_swept(book, s) ==
    [book |-> [book EXCEPT !.asks = s.limits, !.ask_total_volume = s.total_volume],
     order |-> s.order, result |-> Ok, matches |-> s.matches,
     empty_price_leves |-> s.empty_price_leves]

market_ask_swept(book, s) ==
    [book |-> [book EXCEPT !.bids = s.limits, !.bid_total_volume = s.total_volume],
     order |-> s.order, result |-> Ok, matches |-> s.matches,
     empty_price_leves |-> s.empty_price_leves]

market_swept_ensured(book, order, iter, e) ==
    IF e.kind # "Ok"
    THEN [book |-> book, order |-> order, result |-> e, matches |-> <<>>,
          empty_price_leves |-> <<>>]
    ELSE IF order.side = "Bid"
         THEN market_bid_swept(book,
                  sweep(book.asks, book.ask_total_volume, order,
                        Ascending(DOMAIN book.asks), <<>>, <<>>, iter))
         ELSE market_ask_swept(book,
                  sweep(book.bids, book.bid_total_volume, order,
                        Descending(DOMAIN book.bids), <<>>, <<>>, iter))

\* place_market_order up to the end of the walk over the opposing side.
place_market_order_swept(book, order, iter) ==
    market_swept_ensured(book, order, iter, ensure_volume(book, order))

ServerInit ==
    /\ \E timestamp \in Timestamps :
         /\ asks = ServerStateDefault(timestamp).asks
         /\ bids = ServerStateDefault(timestamp).bids
         /\ ask_total_volume = ServerStateDefault(timestamp).ask_total_volume
         /\ bid_total_volume = ServerStateDefault(timestamp).bid_total_volume
         /\ order_index = ServerStateDefault(timestamp).order_index
         /\ last = Call("place_limit_order", Order(1, "Ask", MaxSize, timestamp),
                        MaxPrice, Ok, <<>>, Order(1, "Ask", MaxSize, timestamp))
    /\ used = {1}
    /\ placed = MapInsert([k \in {} |-> [price |-> 0, side |-> "None", size |-> 0]], 1,
                          [price |-> MaxPrice, side |-> "Ask", size |-> MaxSize])
    /\ state_lock = Unlocked
    /\ requests = [r \in Requests |-> NoRequest]
    /\ lim = LimitNew(0)

\* state.read()?: taken when no writer holds the lock.
read(r) ==
    /\ state_lock.writer = 0
    /\ state_lock' = [state_lock EXCEPT !.readers = @ \cup {r}]
    /\ UNCHANGED lim

\* A handler that takes state.read() where the source takes state.write().
write_shared(r) ==
    /\ state_lock.writer = 0
    /\ state_lock' = [state_lock EXCEPT !.readers = @ \cup {r}]
    /\ UNCHANGED lim

\* state.write()?: taken when nobody holds the lock.
write(r) ==
    /\ state_lock.writer = 0
    /\ state_lock.readers = {}
    /\ state_lock' = [state_lock EXCEPT !.writer = r]
    /\ UNCHANGED lim

\* The guard dropped at the end of the handler.
drop(r) ==
    /\ state_lock' = [writer |-> IF state_lock.writer = r THEN 0 ELSE state_lock.writer,
                      readers |-> state_lock.readers \ {r}]
    /\ UNCHANGED lim

At(r, handler, pc) == requests[r].handler = handler /\ requests[r].pc = pc

\* The handler called for request r: its first statement takes the lock.
Called(r, handler, pc) ==
    /\ requests[r].pc = "idle"
    /\ requests' = [requests EXCEPT ![r].handler = handler, ![r].pc = pc]
    /\ UNCHANGED <<asks, bids, ask_total_volume, bid_total_volume, order_index,
                   used, placed, last>>

\* The handler of r ends with `response`, the book as it is.
Responds(r, response) ==
    /\ requests' = [requests EXCEPT ![r].pc = "respond", ![r].response = response]
    /\ UNCHANGED <<asks, bids, ask_total_volume, bid_total_volume, order_index>>

\* state.exchange.get(&pair) found no book: ServerError::NotFound.
NotFound(r) ==
    /\ Responds(r, [status |-> "NOT_FOUND"])
    /\ UNCHANGED <<used, placed, last, state_lock, lim>>

\* order_book_index, line 142
order_book_index_read(r) ==
    /\ read(r)
    /\ Called(r, "order_book_index", "project")

\* order_book_index, lines 143-147
order_book_index_project(r) ==
    /\ At(r, "order_book_index", "project")
    /\ \E pair \in Pairs :
         IF pair = "usdt_eth"
         THEN /\ Responds(r, [status |-> "OK", body |-> ModelOrderBook(Book)])
              /\ UNCHANGED <<used, placed, last, state_lock, lim>>
         ELSE NotFound(r)

\* create_limit_order, line 155
create_limit_order_write(r) ==
    /\ write(r)
    /\ Called(r, "create_limit_order", "call")

\* create_limit_order, lines 156-158, and place_limit_order's first statement
create_limit_order_index(r) ==
    /\ At(r, "create_limit_order", "call")
    /\ \E pair \in Pairs :
         IF pair = "usdt_eth"
         THEN \E id \in FreshIds, side \in Side, size \in Sizes,
                 timestamp \in Timestamps, price \in Prices :
                /\ order_index' = MapInsert(order_index, id, <<side, price>>)
                /\ used' = used \cup {id}
                /\ requests' = [requests EXCEPT
                      ![r].pc = "indexed",
                      ![r].payload = [side |-> side, size |-> size],
                      ![r].order = Order(id, side, size, timestamp),
                      ![r].price = price]
                /\ UNCHANGED <<asks, bids, ask_total_volume, bid_total_volume,
                               placed, last, state_lock, lim>>
         ELSE NotFound(r)

\* place_limit_order: self.ask_total_volume += order.size (or the bid one)
create_limit_order_volume(r) ==
    /\ At(r, "create_limit_order", "indexed")
    /\ IF requests[r].order.side = "Ask"
       THEN /\ ask_total_volume' = ask_total_volume + requests[r].order.size
            /\ UNCHANGED bid_total_volume
       ELSE /\ bid_total_volume' = bid_total_volume + requests[r].order.size
            /\ UNCHANGED ask_total_volume
    /\ requests' = [requests EXCEPT ![r].pc = "counted"]
    /\ UNCHANGED <<asks, bids, order_index, used, placed, last, state_lock, lim>>

\* place_limit_order: entry(price).or_insert_with(..).add_order(order), and
\* create_limit_order, lines 159-160
create_limit_order_add(r) ==
    /\ At(r, "create_limit_order", "counted")
    /\ IF requests[r].order.side = "Ask"
       THEN /\ asks' = entry_add_order(asks, requests[r].price, requests[r].order)
            /\ UNCHANGED bids
       ELSE /\ bids' = entry_add_order(bids, requests[r].price, requests[r].order)
            /\ UNCHANGED asks
    /\ placed' = MapInsert(placed, requests[r].order.id,
                           [price |-> requests[r].price,
                            side |-> requests[r].order.side,
                            size |-> requests[r].order.size])
    /\ last' = Call("place_limit_order", requests[r].order, requests[r].price,
                    Ok, <<>>, requests[r].order)
    /\ requests' = [requests EXCEPT
          ![r].pc = "respond",
          ![r].response = [status |-> "CREATED",
                           body |-> ModelOrder(requests[r].order, requests[r].price)]]
    /\ UNCHANGED <<ask_total_volume, bid_total_volume, order_index, used, state_lock, lim>>

\* create_market_order, line 168
create_market_order_write(r) ==
    /\ write(r)
    /\ Called(r, "create_market_order", "call")

\* The walk of the engine call is over, `s` being what it left and returned:
\* an error ends the handler, otherwise the emptied levels are still to remove.
create_market_order_swept(r, order, s) ==
    /\ used' = used \cup {order.id}
    /\ UNCHANGED <<placed, state_lock, lim>>
    /\ IF s.result.kind # "Ok"
       THEN /\ Responds(r, [status |-> "INTERNAL_SERVER_ERROR", error |-> s.result])
            /\ last' = Call("place_market_order", order, 0, s.result, <<>>, s.order)
       ELSE /\ SetBook(s.book)
            /\ requests' = [requests EXCEPT
                  ![r].pc = "swept",
                  ![r].payload = [side |-> order.side, size |-> order.size],
                  ![r].order = s.order,
                  ![r].matches = s.matches,
                  ![r].empty_price_leves = s.empty_price_leves]
            /\ UNCHANGED last

\* create_market_order, lines 169-171, and place_market_order up to the end of
\* its walk
create_market_order_sweep(r) ==
    /\ At(r, "create_market_order", "call")
    /\ \E pair \in Pairs :
         IF pair = "usdt_eth"
         THEN \E id \in FreshIds, side \in Side, size \in Sizes,
                 timestamp \in Timestamps :
                \E iter \in IterationOrders(
                               ResidentIds(IF side = "Bid" THEN asks ELSE bids)) :
                  create_market_order_swept(r, Order(id, side, size, timestamp),
                      place_market_order_swept(Book, Order(id, side, size, timestamp),
                                               iter))
         ELSE NotFound(r)

\* place_market_*_order: the emptied levels are removed, and create_market_order,
\* lines 172-176
create_market_order_prune(r) ==
    /\ At(r, "create_market_order", "swept")
    /\ IF requests[r].order.side = "Bid"
       THEN /\ asks' = RemoveLevels(asks, requests[r].empty_price_leves)
            /\ UNCHANGED bids
       ELSE /\ bids' = RemoveLevels(bids, requests[r].empty_price_leves)
            /\ UNCHANGED asks
    /\ last' = Call("place_market_order",
                    [requests[r].order EXCEPT !.size = requests[r].payload.size],
                    0, Ok, requests[r].matches, requests[r].order)
    /\ requests' = [requests EXCEPT
          ![r].pc = "respond",
          ![r].response =
              [status |-> "OK",
               body |-> [i \in DOMAIN requests[r].matches |->
                           MatchedOrder(requests[r].matches[i], requests[r].order)]]]
    /\ UNCHANGED <<ask_total_volume, bid_total_volume, order_index, used, placed,
                   state_lock, lim>>

\* cancel_order, line 184
cancel_order_write(r) ==
    /\ write(r)
    /\ Called(r, "cancel_order", "call")

\* cancel_order, line 185, and the engine's cancel_order up to
\* self.order_index.remove(&id).ok_or(OrderNotFound(id))?
cancel_order_index(r) ==
    /\ At(r, "cancel_order", "call")
    /\ \E pair \in Pairs :
         IF pair = "usdt_eth"
         THEN \E id \in Ids :
                IF id \in DOMAIN order_index
                THEN /\ order_index' = MapRemove(order_index, id)
                     /\ requests' = [requests EXCEPT
                           ![r].pc = "unindexed",
                           ![r].order = [NoOrder EXCEPT !.id = id,
                                                        !.side = order_index[id][1]],
                           ![r].price = order_index[id][2]]
                     /\ UNCHANGED <<asks, bids, ask_total_volume, bid_total_volume,
                                    used, placed, last, state_lock, lim>>
                ELSE /\ Responds(r, [status |-> "INTERNAL_SERVER_ERROR",
                                     error |-> OrderNotFound(id)])
                     /\ last' = Call("cancel_order", [NoOrder EXCEPT !.id = id], 0,
                                     OrderNotFound(id), <<>>, NoOrder)
                     /\ UNCHANGED <<used, placed, state_lock, lim>>
         ELSE NotFound(r)

\* The engine's cancel_order is over, `c` being what it did and returned.
cancel_order_removed(r, id, c) ==
    /\ SetBook(c.book)
    /\ last' = Call("cancel_order", [NoOrder EXCEPT !.id = id], 0, c.result, <<>>,
                    c.order)
    /\ requests' = [requests EXCEPT
          ![r].pc = "respond",
          ![r].response = IF c.result.kind = "Ok"
                          THEN [status |-> "NO_CONTENT"]
                          ELSE [status |-> "INTERNAL_SERVER_ERROR",
                                error |-> c.result]]
    /\ UNCHANGED <<used, placed, state_lock, lim>>

\* The engine's cancel_order from cancel_bid_order / cancel_ask_order on, and
\* cancel_order, lines 186-187
cancel_order_remove(r) ==
    /\ At(r, "cancel_order", "unindexed")
    /\ cancel_order_removed(r, requests[r].order.id,
          cancel_ok_or(requests[r].order.id,
              IF requests[r].order.side = "Bid"
              THEN cancel_bid_order(Book, requests[r].order.id, requests[r].price)
              ELSE cancel_ask_order(Book, requests[r].order.id, requests[r].price)))

\* The handler returns and its guard is dropped.
handler_return(r) ==
    /\ requests[r].pc = "respond"
    /\ drop(r)
    /\ requests' = [requests EXCEPT ![r].pc = "done"]
    /\ UNCHANGED <<asks, bids, ask_total_volume, bid_total_volume, order_index,
                   used, placed, last>>

ServerNext ==
    \E r \in Requests :
        \/ order_book_index_read(r)
        \/ order_book_index_project(r)
        \/ create_limit_order_write(r)
        \/ create_limit_order_index(r)
        \/ create_limit_order_volume(r)
        \/ create_limit_order_add(r)
        \/ create_market_order_write(r)
        \/ create_market_order_sweep(r)
        \/ create_market_order_prune(r)
        \/ cancel_order_write(r)
        \/ cancel_order_index(r)
        \/ cancel_order_remove(r)
        \/ handler_return(r)

ServerSpec == ServerInit /\ [][ServerNext]_vars

----------------------------------------------------------------------------
\* A Limit on its own: Limit::new and then add_order, remove_order and fill in
\* any order, as the tests of limit.rs call them. `last` holds the call, the
\* Limit before it and what it returned.

LimitCall(op, order, before, found, out, matches) ==
    [op |-> op, order |-> order, before |-> before, found |-> found, out |-> out,
     matches |-> matches]

LimitInit ==
    /\ \E price \in Prices :
         /\ lim = LimitNew(price)
         /\ last = LimitCall("new", NoOrder, LimitNew(price), FALSE, NoOrder, <<>>)
    /\ used = {}
    /\ asks = OrderBookNew.asks
    /\ bids = OrderBookNew.bids
    /\ ask_total_volume = OrderBookNew.ask_total_volume
    /\ bid_total_volume = OrderBookNew.bid_total_volume
    /\ order_index = OrderBookNew.order_index
    /\ placed = [k \in {} |-> [price |-> 0, side |-> "None", size |-> 0]]
    /\ state_lock = Unlocked
    /\ requests = [r \in Requests |-> NoRequest]

\* The call limit.add_order(order), the order built by Order::new or by hand.
AddOrder ==
    \E id \in FreshIds, side \in Side, size \in Sizes, timestamp \in Timestamps :
        /\ lim' = add_order(lim, Order(id, side, size, timestamp))
        /\ used' = used \cup {id}
        /\ last' = LimitCall("add_order", Order(id, side, size, timestamp), lim,
                             TRUE, NoOrder, <<>>)
        /\ UNCHANGED <<asks, bids, ask_total_volume, bid_total_volume, order_index,
                       placed, state_lock, requests>>

\* The call limit.remove_order(id), `r` being what it did and returned.
OrderRemoved(id, r) ==
    /\ lim' = r.limit
    /\ last' = LimitCall("remove_order", [NoOrder EXCEPT !.id = id], lim,
                         r.found, r.removed, <<>>)
    /\ UNCHANGED <<asks, bids, ask_total_volume, bid_total_volume, order_index,
                   used, placed, state_lock, requests>>

RemoveOrder ==
    \E id \in Ids : OrderRemoved(id, remove_order(lim, id))

\* The call limit.fill(&mut order), `f` being what it did and returned.
LimitFilled(order, f) ==
    /\ lim' = f.limit
    /\ used' = used \cup {order.id}
    /\ last' = LimitCall("fill", order, lim, TRUE, f.order, f.matches)
    /\ UNCHANGED <<asks, bids, ask_total_volume, bid_total_volume, order_index,
                   placed, state_lock, requests>>

\* fill is called with an order of the side opposite to the resident orders'
\* (match_orders is unreachable!() otherwise).
Fill ==
    \E id \in FreshIds, side \in Side, size \in Sizes, timestamp \in Timestamps :
      /\ \A o \in DOMAIN lim.orders_by_uuid :
            lim.orders_by_uuid[o].side = opposite(side)
      /\ \E iter \in IterationOrders(DOMAIN lim.orders_by_uuid) :
            LimitFilled(Order(id, side, size, timestamp),
                        fill(lim, Order(id, side, size, timestamp), iter))

LimitNext ==
    \/ AddOrder
    \/ RemoveOrder
    \/ Fill

LimitSpec == LimitInit /\ [][LimitNext]_vars

----------------------------------------------------------------------------
\* Vocabulary of the properties

\* The orders resident in the Limits of one side, at their current sizes.
ResidentOrders(limits) ==
    UNION {{limits[p].orders_by_uuid[id] : id \in DOMAIN limits[p].orders_by_uuid} :
           p \in DOMAIN limits}

RECURSIVE SumSizes(_)
SumSizes(orders) ==
    IF orders = {} THEN 0
    ELSE LET o == CHOOSE x \in orders : TRUE
         IN o.size + SumSizes(orders \ {o})

LimitsOf(book, side) == IF side = "Ask" THEN book.asks ELSE book.bids

VolumeOf(book, side) ==
    IF side = "Ask" THEN book.ask_total_volume ELSE book.bid_total_volume

\* The resident (maker) order of a Match of a market order on `side`.
Resting(match, side) == IF side = "Bid" THEN match.ask ELSE match.bid

Market == last.op = "place_market_order"
MarketOk == Market /\ last.result.kind = "Ok"

----------------------------------------------------------------------------
\* C1: after every call, ask_total_volume is the sum of the current sizes of the
\* orders resident in ask Limits, and bid_total_volume the sum over bid Limits.
C1_AggregateVolumes ==
    /\ ask_total_volume = SumSizes(ResidentOrders(asks))
    /\ bid_total_volume = SumSizes(ResidentOrders(bids))

\* C1 witness: a market bid has partially consumed the ask side, which still
\* holds volume.
C1_Witness ==
    /\ MarketOk
    /\ last.order.side = "Bid"
    /\ Len(last.matches) > 0
    /\ \E m \in {last.matches[i] : i \in DOMAIN last.matches} : m.ask.size > 0
    /\ ask_total_volume > 0

\* C2 (as claimed): every id in order_index maps to a (side, price) whose Limit
\* exists on that side and holds an order with that id.
C2_IndexResolves ==
    \A id \in DOMAIN order_index :
        LET side == order_index[id][1]
            price == order_index[id][2]
            limits == LimitsOf(Book, side)
        IN /\ price \in DOMAIN limits
           /\ id \in DOMAIN limits[price].orders_by_uuid

\* C3 (as claimed): every Limit's total_volume is the sum of the current sizes of
\* the orders resident in it.
C3_LimitTotalVolume ==
    \A side \in Side :
        \A p \in DOMAIN LimitsOf(Book, side) :
            LET limit == LimitsOf(Book, side)[p]
            IN limit.total_volume =
                 SumSizes({limit.orders_by_uuid[id] : id \in DOMAIN limit.orders_by_uuid})

\* C4: place_market_order either returns NotEnoughVolume with the book and the
\* incoming order unchanged, or returns Ok with the incoming order's size 0; it
\* never returns Ok with the incoming order partially filled.
C4_MarketAllOrNothing ==
    [][last'.op = "place_market_order" =>
        \/ /\ last'.result.kind = "NotEnoughVolume"
           /\ Book' = Book
           /\ last'.out = last'.order
        \/ /\ last'.result.kind = "Ok"
           /\ last'.out.size = 0]_vars

\* C4 witness: a market order of positive size was filled in full over two Matches.
C4_Witness ==
    /\ MarketOk
    /\ last.order.size > 0
    /\ Len(last.matches) >= 2
    /\ \A i \in DOMAIN last.matches : last.matches[i].size_filled > 0
    /\ last.out.size = 0

\* C5: place_market_order fails exactly when order.size is strictly greater than
\* the opposing side's aggregate volume; the failure is NotEnoughVolume with
\* side = order.side, expected_volume = order.size, actual_volume = that volume,
\* and on failure the book and order.size are unchanged.
C5_NotEnoughVolume ==
    [][last'.op = "place_market_order" =>
        LET order == last'.order
            actual == VolumeOf(Book, opposite(order.side))
        IN /\ (last'.result.kind = "NotEnoughVolume") <=> (order.size > actual)
           /\ last'.result.kind = "NotEnoughVolume" =>
                /\ last'.result = NotEnoughVolume(order.side, order.size, actual)
                /\ asks' = asks /\ bids' = bids
                /\ ask_total_volume' = ask_total_volume
                /\ bid_total_volume' = bid_total_volume
                /\ order_index' = order_index
                /\ last'.out.size = order.size]_vars

\* C5 witness: a market order was rejected against an opposing side that holds
\* some volume, but less than asked for.
C5_Witness ==
    /\ Market
    /\ last.result.kind = "NotEnoughVolume"
    /\ last.result.actual_volume > 0
    /\ last.result.expected_volume > last.result.actual_volume
    /\ VolumeOf(Book, opposite(last.order.side)) = last.result.actual_volume

\* C6 (as claimed): within one Limit.fill call the resident orders are paired
\* with the aggressor in arrival order (ascending timestamp, ties by ascending
\* id): if resident A precedes resident B at one price and B appears in a Match,
\* then A appears in an earlier Match of the call and was fully filled there.
C6_ArrivalOrder ==
    [][last'.op = "place_market_order" =>
        LET side == opposite(last'.order.side)
            limits == LimitsOf(Book, side)
            matches == last'.matches
        IN \A p \in DOMAIN limits :
             \A a, b \in DOMAIN limits[p].orders_by_uuid :
               \A j \in DOMAIN matches :
                 ( /\ cmp(limits[p].orders_by_uuid[a], limits[p].orders_by_uuid[b]) = "Less"
                   /\ Resting(matches[j], last'.order.side).id = b )
                 => \E i \in 1..(j - 1) :
                      /\ Resting(matches[i], last'.order.side).id = a
                      /\ Resting(matches[i], last'.order.side).size = 0]_vars

\* q is a strictly better price than p for an aggressor on `aggressor` side:
\* lower asks for a market bid, higher bids for a market ask.
Better(q, p, aggressor) == IF aggressor = "Bid" THEN q < p ELSE q > p

\* C7: a successful place_market_order sweeps the opposing side best price
\* first: the Matches' prices never get better along the sequence (ascending for
\* a market bid, descending for a market ask), and a resting order at a price is
\* matched only if every Limit at a strictly better price on that side was
\* emptied, and so pruned, by this same market order.
C7_BestPriceFirst ==
    [][\A aggressor \in Side :
         ( /\ last'.op = "place_market_order"
           /\ last'.result.kind = "Ok"
           /\ last'.order.side = aggressor )
         => LET before == LimitsOf(Book, opposite(aggressor))
                after == LimitsOf(Book, opposite(aggressor))'
                matches == last'.matches
            IN /\ \A i, j \in DOMAIN matches :
                    i < j => ~Better(matches[j].price, matches[i].price, aggressor)
               /\ \A j \in DOMAIN matches :
                    /\ matches[j].price \in DOMAIN before
                    /\ Resting(matches[j], aggressor).id
                         \in DOMAIN before[matches[j].price].orders_by_uuid
                    /\ \A q \in DOMAIN before :
                         Better(q, matches[j].price, aggressor) => q \notin DOMAIN after]_vars

\* C7 witness: a market ask was matched at two bid prices, the higher first.
C7_Witness ==
    /\ MarketOk
    /\ last.order.side = "Ask"
    /\ Len(last.matches) = 2
    /\ last.matches[1].price > last.matches[2].price
    /\ last.matches[1].size_filled > 0
    /\ last.matches[2].size_filled > 0

\* C8: every Match returned by place_market_order has the price of the Limit the
\* resting order resided in, which is the price it was placed under with
\* place_limit_order, on the side opposite to the aggressor's.
C8_MatchPrice ==
    Market =>
        \A i \in DOMAIN last.matches :
            LET resting == Resting(last.matches[i], last.order.side)
            IN /\ resting.id \in DOMAIN placed
               /\ last.matches[i].price = placed[resting.id].price
               /\ placed[resting.id].side = opposite(last.order.side)

\* C8 witness: a market bid was matched against asks placed at two prices.
C8_Witness ==
    /\ MarketOk
    /\ last.order.side = "Bid"
    /\ Len(last.matches) = 2
    /\ placed[last.matches[1].ask.id].price # placed[last.matches[2].ask.id].price

\* C9: after every call neither asks nor bids holds a Limit with no resident
\* order, and each Limit sits under its own price.
C9_NoEmptyLimit ==
    \A side \in Side :
        \A p \in DOMAIN LimitsOf(Book, side) :
            /\ ~is_empty(LimitsOf(Book, side)[p])
            /\ LimitsOf(Book, side)[p].price = p

\* C9 witness: a market bid emptied the only ask Limit, which is gone, while a
\* bid Limit remains.
C9_Witness ==
    /\ MarketOk
    /\ last.order.side = "Bid"
    /\ \E i \in DOMAIN last.matches : last.matches[i].size_filled > 0
    /\ DOMAIN asks = {}
    /\ DOMAIN bids # {}

\* C10: cancel_order(id) of an order resident in the book returns that order at
\* its current remaining size, lowers the side's aggregate volume by that size,
\* removes the order from its Limit and from order_index, removes the Limit iff
\* it became empty, and leaves every other resident order, every other Limit and
\* the opposite side untouched.
C10_CancelResident ==
    [][\A side \in Side :
         \A p \in DOMAIN LimitsOf(Book, side) :
           ( /\ last'.op = "cancel_order"
             /\ last'.order.id \in DOMAIN LimitsOf(Book, side)[p].orders_by_uuid )
           => LET id == last'.order.id
                  before == LimitsOf(Book, side)
                  after == LimitsOf(Book, side)'
                  order == before[p].orders_by_uuid[id]
                  others == (DOMAIN before[p].orders_by_uuid) \ {id}
              IN /\ last'.result.kind = "Ok"
                 /\ last'.out = order
                 /\ VolumeOf(Book, side)' = VolumeOf(Book, side) - order.size
                 /\ order_index' = MapRemove(order_index, id)
                 /\ (p \notin DOMAIN after) <=> (others = {})
                 /\ others # {} => after[p].orders_by_uuid = MapRemove(before[p].orders_by_uuid, id)
                 /\ DOMAIN after \subseteq DOMAIN before
                 /\ \A q \in (DOMAIN before) \ {p} : q \in DOMAIN after /\ after[q] = before[q]
                 /\ LimitsOf(Book, opposite(side))' = LimitsOf(Book, opposite(side))
                 /\ VolumeOf(Book, opposite(side))' = VolumeOf(Book, opposite(side))]_vars

\* C10 witness: an order was cancelled after a partial fill and came back at its
\* remaining size, out of a Limit that keeps another order.
C10_Witness ==
    /\ last.op = "cancel_order"
    /\ last.result.kind = "Ok"
    /\ last.out.size > 0
    /\ last.out.size < placed[last.out.id].size
    /\ placed[last.out.id].price \in DOMAIN LimitsOf(Book, last.out.side)

\* The ids resident in some Limit of the book, on either side.
Residents == ResidentIds(asks) \cup ResidentIds(bids)

\* C11 (as claimed): whenever cancel_order(id) returns OrderNotFound, asks, bids,
\* both aggregate volumes and order_index are what they were before the call.
C11_NotFoundNoMutation ==
    [][(last'.op = "cancel_order" /\ last'.result.kind = "OrderNotFound")
        => Book' = Book]_vars

\* C12 (as claimed): cancel_order(id) of an id that order_index maps to a
\* (side, price) with no Limit returns LimitNotFound and not OrderNotFound;
\* OrderNotFound is returned only when id is missing from order_index or the
\* Limit order_index points at does not hold the order.
C12_LimitNotFound ==
    [][last'.op = "cancel_order" =>
        LET id == last'.order.id
            indexed == id \in DOMAIN order_index
            limits == LimitsOf(Book, order_index[id][1])
            price == order_index[id][2]
        IN /\ (indexed /\ price \notin DOMAIN limits)
                => last'.result.kind = "LimitNotFound"
           /\ last'.result.kind = "OrderNotFound"
                => \/ ~indexed
                   \/ /\ price \in DOMAIN limits
                      /\ id \notin DOMAIN limits[price].orders_by_uuid]_vars

\* C13: an order that left the book stays out of it. A successful cancel_order
\* leaves its order in no Limit, a market order leaves no resting order it
\* filled in full in any Limit, an id once given to an order and not resident
\* is not resident after any call, and cancel_order of an id that is not
\* resident (cancelled, filled or never placed) returns OrderNotFound.
C13_Terminal ==
    [][/\ \A id \in used : id \notin Residents => id \notin Residents'
       /\ (last'.op = "cancel_order" /\ last'.result.kind = "Ok")
            => last'.order.id \notin Residents'
       /\ last'.op = "place_market_order"
            => \A i \in DOMAIN last'.matches :
                 Resting(last'.matches[i], last'.order.side).size = 0
                   => Resting(last'.matches[i], last'.order.side).id \notin Residents'
       /\ (last'.op = "cancel_order" /\ last'.order.id \notin Residents)
            => last'.result.kind = "OrderNotFound"]_vars

\* C13 witness: cancel_order of an id placed earlier with a positive size, and
\* no longer resident, returned OrderNotFound while other orders are resident.
C13_Witness ==
    /\ last.op = "cancel_order"
    /\ last.result.kind = "OrderNotFound"
    /\ last.order.id \in DOMAIN placed
    /\ placed[last.order.id].size > 0
    /\ last.order.id \notin Residents
    /\ Residents # {}

\* C14: place_limit_order(price, order) returns without error and without a
\* Match; order_index gains id -> (order.side, price); the side's aggregate
\* volume grows by order.size; the Limit at price on that side, created if
\* absent, gains the order and order.size of total_volume; every other Limit of
\* the side, the orders already in the Limit, and the opposite side's Limits and
\* volume are unchanged, whatever the opposite side's best price.
C14_LimitFrame ==
    [][\A side \in Side :
         (last'.op = "place_limit_order" /\ last'.order.side = side)
         => LET order == last'.order
                price == last'.price
                before == LimitsOf(Book, side)
                after == LimitsOf(Book, side)'
                old == IF price \in DOMAIN before THEN before[price]
                       ELSE LimitNew(price)
            IN /\ last'.result.kind = "Ok"
               /\ last'.matches = <<>>
               /\ order_index' = MapInsert(order_index, order.id, <<side, price>>)
               /\ VolumeOf(Book, side)' = VolumeOf(Book, side) + order.size
               /\ DOMAIN after = (DOMAIN before) \cup {price}
               /\ after[price].price = price
               /\ after[price].orders_by_uuid
                    = MapInsert(old.orders_by_uuid, order.id, order)
               /\ after[price].orders_by_timestamp
                    = old.orders_by_timestamp \cup {order}
               /\ after[price].total_volume = old.total_volume + order.size
               /\ \A q \in (DOMAIN before) \ {price} : after[q] = before[q]
               /\ LimitsOf(Book, opposite(side))' = LimitsOf(Book, opposite(side))
               /\ VolumeOf(Book, opposite(side))' = VolumeOf(Book, opposite(side))]_vars

\* C14 witness: a bid was placed at a price at or above the best ask, into a
\* Limit that already held an order; the asks are still there.
C14_Witness ==
    /\ last.op = "place_limit_order"
    /\ last.order.side = "Bid"
    /\ last.order.size > 0
    /\ \E q \in DOMAIN asks : q <= last.price /\ asks[q].total_volume > 0
    /\ Cardinality(DOMAIN bids[last.price].orders_by_uuid) = 2

\* C15: after every call, every order resident in a Limit has an order_index
\* entry, which is (the order's side, the price of the Limit holding it), and
\* the Limit is in the collection of the order's side.
C15_ResidentIndexed ==
    \A side \in Side :
        \A p \in DOMAIN LimitsOf(Book, side) :
            \A id \in DOMAIN LimitsOf(Book, side)[p].orders_by_uuid :
                LET order == LimitsOf(Book, side)[p].orders_by_uuid[id]
                IN /\ order.id = id
                   /\ order.side = side
                   /\ id \in DOMAIN order_index
                   /\ order_index[id] = <<order.side, p>>

\* C15 witness: after a market order, a partially filled order and an untouched
\* one are resident at different prices.
C15_Witness ==
    /\ MarketOk
    /\ \E i \in DOMAIN last.matches :
          /\ Resting(last.matches[i], last.order.side).size > 0
          /\ last.matches[i].size_filled > 0
          /\ Resting(last.matches[i], last.order.side).id \in Residents
    /\ Cardinality(Residents) = 2
    /\ Cardinality(DOMAIN LimitsOf(Book, opposite(last.order.side))) = 2

\* C16: on a successful place_market_order the size_filled of the returned
\* Matches add up to the incoming order's size at call time; the opposing side's
\* aggregate volume and the sum of the sizes resident on the opposing side both
\* go down by that amount; the incoming order's own side is unchanged.
C16_MarketConservation ==
    [][\A aggressor \in Side :
         ( /\ last'.op = "place_market_order"
           /\ last'.result.kind = "Ok"
           /\ last'.order.side = aggressor )
         => /\ SumSizeFilled(last'.matches) = last'.order.size
            /\ VolumeOf(Book, opposite(aggressor))'
                 = VolumeOf(Book, opposite(aggressor)) - last'.order.size
            /\ SumSizes(ResidentOrders(LimitsOf(Book, opposite(aggressor))))'
                 = SumSizes(ResidentOrders(LimitsOf(Book, opposite(aggressor))))
                     - last'.order.size
            /\ LimitsOf(Book, aggressor)' = LimitsOf(Book, aggressor)
            /\ VolumeOf(Book, aggressor)' = VolumeOf(Book, aggressor)]_vars

\* C16 witness: a market ask was filled against part of the bid side's volume,
\* with an ask resting on its own side.
C16_Witness ==
    /\ MarketOk
    /\ last.order.side = "Ask"
    /\ last.order.size > 0
    /\ SumSizeFilled(last.matches) > 0
    /\ bid_total_volume > 0
    /\ ask_total_volume > 0

\* C17 (as claimed): every Match returned by place_market_order has
\* size_filled > 0, orders of size 0 included.
C17_PositiveFill ==
    Market => \A i \in DOMAIN last.matches : last.matches[i].size_filled > 0

\* C18: when every order was placed with a positive size, every resident order
\* has a positive size after every call; and no size is negative: not a
\* resident order's, not the returned order's, not those recorded in a Match.
C18_ResidentPositive ==
    /\ (\A id \in DOMAIN placed : placed[id].size > 0)
         => \A side \in Side :
              \A o \in ResidentOrders(LimitsOf(Book, side)) : o.size > 0
    /\ \A side \in Side :
         \A o \in ResidentOrders(LimitsOf(Book, side)) : o.size >= 0
    /\ last.out.size >= 0
    /\ \A i \in DOMAIN last.matches :
         last.matches[i].ask.size >= 0 /\ last.matches[i].bid.size >= 0

\* C18 witness: all orders were placed with positive sizes; a market order
\* filled one resting order in full, which is gone from its Limit, and another
\* in part, which stays.
C18_Witness ==
    /\ MarketOk
    /\ \A id \in DOMAIN placed : placed[id].size > 0
    /\ \E i \in DOMAIN last.matches :
          /\ Resting(last.matches[i], last.order.side).size = 0
          /\ Resting(last.matches[i], last.order.side).id \notin Residents
    /\ \E i \in DOMAIN last.matches :
          /\ Resting(last.matches[i], last.order.side).size > 0
          /\ Resting(last.matches[i], last.order.side).id \in Residents

\* The request holds the lock for writing / for reading, going by where its
\* handler is.
Mutating == {"create_limit_order", "create_market_order", "cancel_order"}

Writing(r) ==
    /\ requests[r].handler \in Mutating
    /\ requests[r].pc \notin {"idle", "done"}

Reading(r) ==
    /\ requests[r].handler = "order_book_index"
    /\ requests[r].pc \notin {"idle", "done"}

\* The engine call of the request is under way: begun and not over.
InEngineCall(r) == requests[r].pc \in {"indexed", "counted", "swept", "unindexed"}

\* C19: a mutating handler holds the write lock from its first statement to its
\* return, the snapshot handler holds a read lock likewise; so at most one
\* mutating handler runs at a time, a reader overlaps only with readers, and
\* while a reader holds the lock no engine call is under way: the book it
\* projects has its volumes equal to the resident sizes, no empty Limit and every
\* resident order indexed, and every snapshot returned shows volumes equal to
\* the sizes of the orders it lists.
C19_LockDiscipline ==
    /\ \A r \in Requests : Writing(r) <=> state_lock.writer = r
    /\ \A r \in Requests : Reading(r) <=> r \in state_lock.readers
    /\ \A r1, r2 \in Requests : (Writing(r1) /\ Writing(r2)) => r1 = r2
    /\ \A r1, r2 \in Requests : Writing(r1) => ~Reading(r2)
    /\ (\E r \in Requests : Reading(r))
         => /\ \A w \in Requests : ~InEngineCall(w)
            /\ C1_AggregateVolumes
            /\ C9_NoEmptyLimit
            /\ C15_ResidentIndexed
    /\ \A r \in Requests :
         (requests[r].handler = "order_book_index" /\ requests[r].response.status = "OK")
         => /\ requests[r].response.body.ask_total_volume
                 = SumSizes(requests[r].response.body.asks)
            /\ requests[r].response.body.bid_total_volume
                 = SumSizes(requests[r].response.body.bids)

\* C19 witness: two snapshot handlers hold the read lock together, one with its
\* snapshot taken, after a market order went through the book.
C19_Witness ==
    /\ Cardinality(state_lock.readers) = 2
    /\ \E r \in state_lock.readers :
          /\ requests[r].pc = "respond"
          /\ requests[r].response.status = "OK"
    /\ \E w \in Requests :
          /\ requests[w].handler = "create_market_order"
          /\ requests[w].pc = "done"
          /\ Len(requests[w].matches) > 0

Min(a, b) == IF a <= b THEN a ELSE b

\* The incoming (taker) order of a Match of a market order on `side`.
Incoming(match, side) == IF side = "Bid" THEN match.bid ELSE match.ask

\* C20: each Match of a market order transfers fill_qty = min(aggressor.size,
\* resident.size) as the two sizes stood before the pairing: size_filled is
\* fill_qty, both sizes are fill_qty lower after it (the resident's in the book
\* too, if it stays), at least one of the two is 0 and neither is negative.
C20_FillQty ==
    [][\A aggressor \in Side :
         (last'.op = "place_market_order" /\ last'.order.side = aggressor)
         => LET matches == last'.matches
                residents == ResidentOrders(LimitsOf(Book, opposite(aggressor)))
                Resident(i) == CHOOSE o \in residents :
                                  o.id = Resting(matches[i], aggressor).id
                AggressorSize(i) == IF i = 1 THEN last'.order.size
                                    ELSE Incoming(matches[i - 1], aggressor).size
                fill_qty(i) == Min(AggressorSize(i), Resident(i).size)
            IN \A i \in DOMAIN matches :
                 /\ \E o \in residents : o.id = Resting(matches[i], aggressor).id
                 /\ matches[i].size_filled = fill_qty(i)
                 /\ Incoming(matches[i], aggressor).size
                      = AggressorSize(i) - fill_qty(i)
                 /\ Resting(matches[i], aggressor).size
                      = Resident(i).size - fill_qty(i)
                 /\ \/ Incoming(matches[i], aggressor).size = 0
                    \/ Resting(matches[i], aggressor).size = 0
                 /\ Incoming(matches[i], aggressor).size >= 0
                 /\ Resting(matches[i], aggressor).size >= 0
                 /\ \A o \in ResidentOrders(LimitsOf(Book, opposite(aggressor)))' :
                      o.id = Resident(i).id
                        => o.size = Resident(i).size - fill_qty(i)]_vars

\* C20 witness: a market order of size 2 took all of a smaller resting order
\* and then part of a larger one.
C20_Witness ==
    /\ MarketOk
    /\ last.order.size = 2
    /\ Len(last.matches) = 2
    /\ Resting(last.matches[1], last.order.side).size = 0
    /\ Incoming(last.matches[1], last.order.side).size = 1
    /\ last.matches[2].size_filled = 1
    /\ Resting(last.matches[2], last.order.side).size = 1
    /\ Incoming(last.matches[2], last.order.side).size = 0

\* C21: in every Match of a market order the bid field is the Bid-side order
\* and the ask field the Ask-side order: the aggressor's side holds the incoming
\* order (its id), the other the resting order, which was resident on the
\* opposing side; and both fields are the orders as this leg left them: their
\* sizes before the leg less size_filled, everything else as it was.
C21_MatchFields ==
    [][\A aggressor \in Side :
         (last'.op = "place_market_order" /\ last'.order.side = aggressor)
         => LET matches == last'.matches
                residents == ResidentOrders(LimitsOf(Book, opposite(aggressor)))
                Resident(i) == CHOOSE o \in residents :
                                  o.id = Resting(matches[i], aggressor).id
                AggressorSize(i) == IF i = 1 THEN last'.order.size
                                    ELSE Incoming(matches[i - 1], aggressor).size
            IN \A i \in DOMAIN matches :
                 /\ matches[i].bid.side = "Bid"
                 /\ matches[i].ask.side = "Ask"
                 /\ \E o \in residents : o.id = Resting(matches[i], aggressor).id
                 /\ Incoming(matches[i], aggressor)
                      = [last'.order EXCEPT
                           !.size = AggressorSize(i) - matches[i].size_filled]
                 /\ Resting(matches[i], aggressor)
                      = [Resident(i) EXCEPT
                           !.size = Resident(i).size - matches[i].size_filled]]_vars

\* C21 witness: a market ask was matched with two bids; the first leg left the
\* incoming ask with size to fill and the bid at 0, the second left the bid with
\* a remainder.
C21_Witness ==
    /\ MarketOk
    /\ last.order.side = "Ask"
    /\ Len(last.matches) = 2
    /\ last.matches[1].size_filled > 0
    /\ last.matches[1].ask.size > 0
    /\ last.matches[1].bid.size = 0
    /\ last.matches[2].ask.size = 0
    /\ last.matches[2].bid.size > 0
    /\ last.matches[1].ask.id = last.order.id
    /\ last.matches[1].bid.id # last.matches[2].bid.id

\* C25: a successful market order stops as soon as the incoming order is at
\* size 0: no Match follows one that left the incoming order at 0, and every
\* opposing Limit at a price strictly worse than the last Match's is after the
\* call what it was before it.
C25_SweepStops ==
    [][\A aggressor \in Side :
         ( /\ last'.op = "place_market_order"
           /\ last'.result.kind = "Ok"
           /\ last'.order.side = aggressor )
         => LET matches == last'.matches
                before == LimitsOf(Book, opposite(aggressor))
                after == LimitsOf(Book, opposite(aggressor))'
            IN /\ \A i \in DOMAIN matches :
                    i < Len(matches) => Incoming(matches[i], aggressor).size > 0
               /\ matches # <<>> =>
                    \A q \in DOMAIN before :
                        Better(matches[Len(matches)].price, q, aggressor)
                        => q \in DOMAIN after /\ after[q] = before[q]]_vars

\* C25 witness: a market bid was filled in full at the lower ask price and the
\* Limit at the higher ask price is still there.
C25_Witness ==
    /\ MarketOk
    /\ last.order.side = "Bid"
    /\ last.order.size > 0
    /\ Len(last.matches) > 0
    /\ \E q \in DOMAIN asks :
          /\ q > last.matches[Len(last.matches)].price
          /\ asks[q].total_volume > 0

\* C26: in the Matches of one successful market order no resting order appears
\* twice; every Match but the last leaves its resting order at size 0, and a
\* resting order left at size 0 is in no Limit after the call; so only the
\* resting order of the last Match can stay with a reduced positive size.
C26_OnePartial ==
    [][\A aggressor \in Side :
         ( /\ last'.op = "place_market_order"
           /\ last'.result.kind = "Ok"
           /\ last'.order.side = aggressor )
         => LET matches == last'.matches
            IN /\ \A i, j \in DOMAIN matches :
                    Resting(matches[i], aggressor).id = Resting(matches[j], aggressor).id
                    => i = j
               /\ \A i \in DOMAIN matches :
                    i < Len(matches) => Resting(matches[i], aggressor).size = 0
               /\ \A i \in DOMAIN matches :
                    Resting(matches[i], aggressor).size = 0
                    => Resting(matches[i], aggressor).id \notin Residents'
               /\ \A o \in ResidentOrders(LimitsOf(Book, opposite(aggressor))) :
                    \A o2 \in ResidentOrders(LimitsOf(Book, opposite(aggressor)))' :
                      (o2.id = o.id /\ o2.size # o.size)
                      => /\ matches # <<>>
                         /\ o.id = Resting(matches[Len(matches)], aggressor).id
                         /\ o2.size > 0 /\ o2.size < o.size]_vars

\* C26 witness: a market order took all of one resting order and then part of
\* another, which stays in the book.
C26_Witness ==
    /\ MarketOk
    /\ Len(last.matches) = 2
    /\ last.matches[1].size_filled > 0
    /\ Resting(last.matches[1], last.order.side).size = 0
    /\ Resting(last.matches[1], last.order.side).id \notin Residents
    /\ Resting(last.matches[2], last.order.side).size > 0
    /\ Resting(last.matches[2], last.order.side).id \in Residents

\* C27: after place_market_order, whatever it returned, the incoming order's id
\* is not in order_index and in no Limit of either side, and the ids resident
\* are among those resident before the call.
C27_MarketNeverRests ==
    [][last'.op = "place_market_order" =>
        /\ last'.order.id \notin DOMAIN order_index'
        /\ last'.order.id \notin Residents'
        /\ Residents' \subseteq Residents
        /\ last'.order.id \notin Residents]_vars

\* C27 witness: a market order was rejected for lack of volume with orders
\* resting on both sides.
C27_Witness ==
    /\ Market
    /\ last.result.kind = "NotEnoughVolume"
    /\ last.order.size > 0
    /\ last.order.id \notin Residents
    /\ DOMAIN asks # {} /\ DOMAIN bids # {}

\* C22: on a Limit, add_order(o) followed by remove_order(o.id) returns o and
\* leaves the Limit as it was before the add_order; add_order raises
\* total_volume by o.size; remove_order of a resident order returns it and
\* lowers total_volume by its size; remove_order of an id that is not resident
\* returns None and leaves the Limit unchanged.
C22_AddRemove ==
    [][/\ ( /\ last.op = "add_order"
            /\ last'.op = "remove_order"
            /\ last'.order.id = last.order.id )
          => /\ last'.found
             /\ last'.out = last.order
             /\ lim' = last.before
       /\ last'.op = "add_order"
          => /\ lim'.total_volume = lim.total_volume + last'.order.size
             /\ last'.order.id \in DOMAIN lim'.orders_by_uuid
             /\ last'.order \in lim'.orders_by_timestamp
       /\ (last'.op = "remove_order" /\ last'.order.id \in DOMAIN lim.orders_by_uuid)
          => /\ last'.found
             /\ last'.out = lim.orders_by_uuid[last'.order.id]
             /\ lim'.total_volume
                  = lim.total_volume - lim.orders_by_uuid[last'.order.id].size
             /\ last'.order.id \notin DOMAIN lim'.orders_by_uuid
       /\ (last'.op = "remove_order" /\ last'.order.id \notin DOMAIN lim.orders_by_uuid)
          => /\ ~last'.found
             /\ lim' = lim]_vars

\* C22 witness: the order built last was added to a Limit holding a partially
\* filled order and removed again; the Limit is what it was without it.
C22_Witness ==
    /\ last.op = "remove_order"
    /\ last.found
    /\ last.out.id = Cardinality(used)
    /\ last.out.size > 0
    /\ last.before = add_order(lim, last.out)
    /\ \E id \in DOMAIN lim.orders_by_uuid :
          lim.orders_by_uuid[id] \notin lim.orders_by_timestamp

\* The ids held by the arrival-order index.
TimestampIds(limit) == {o.id : o \in limit.orders_by_timestamp}

\* C23: after any sequence of add_order, remove_order and fill, orders_by_uuid
\* and orders_by_timestamp hold the same ids, each once; an order a fill
\* brought to size 0 is in neither.
C23_SameIds ==
    /\ TimestampIds(lim) = DOMAIN lim.orders_by_uuid
    /\ Cardinality(lim.orders_by_timestamp) = Cardinality(DOMAIN lim.orders_by_uuid)
    /\ last.op = "fill"
         => \A i \in DOMAIN last.matches :
              Resting(last.matches[i], last.order.side).size = 0
              => /\ Resting(last.matches[i], last.order.side).id
                      \notin DOMAIN lim.orders_by_uuid
                 /\ Resting(last.matches[i], last.order.side).id
                      \notin TimestampIds(lim)

\* C23 witness: a fill took all of one resident order, which is gone from both
\* indices, and left another in both.
C23_Witness ==
    /\ last.op = "fill"
    /\ \E i \in DOMAIN last.matches :
          /\ last.matches[i].size_filled > 0
          /\ Resting(last.matches[i], last.order.side).size = 0
          /\ Resting(last.matches[i], last.order.side).id \notin TimestampIds(lim)
    /\ DOMAIN lim.orders_by_uuid # {}
    /\ TimestampIds(lim) # {}

\* BTreeSet::iter on orders_by_timestamp: ascending by Ord for OrderByTimestamp.
RECURSIVE iter_by_timestamp(_)
iter_by_timestamp(s) ==
    IF s = {} THEN <<>>
    ELSE LET first == CHOOSE x \in s : \A y \in s : cmp(x, y) # "Greater"
         IN <<first>> \o iter_by_timestamp(s \ {first})

\* C24: iterating orders_by_timestamp yields the resident orders, each once, by
\* ascending timestamp and, at equal timestamps, ascending id, in whatever
\* order they were added and after any removal.
C24_ArrivalIteration ==
    LET orders == iter_by_timestamp(lim.orders_by_timestamp)
    IN /\ {orders[i].id : i \in DOMAIN orders} = DOMAIN lim.orders_by_uuid
       /\ Len(orders) = Cardinality(DOMAIN lim.orders_by_uuid)
       /\ \A i, j \in DOMAIN orders :
            i < j => \/ orders[i].timestamp < orders[j].timestamp
                     \/ /\ orders[i].timestamp = orders[j].timestamp
                        /\ orders[i].id < orders[j].id

\* C24 witness: after a removal two orders remain, and the one added later
\* comes first, having the earlier timestamp.
C24_Witness ==
    /\ last.op = "remove_order"
    /\ last.found
    /\ Cardinality(lim.orders_by_timestamp) = 2
    /\ iter_by_timestamp(lim.orders_by_timestamp)[1].id
         > iter_by_timestamp(lim.orders_by_timestamp)[2].id
    /\ iter_by_timestamp(lim.orders_by_timestamp)[1].timestamp
         < iter_by_timestamp(lim.orders_by_timestamp)[2].timestamp

\* C28 (as claimed): the size orders_by_timestamp records for a resident order
\* is the size orders_by_uuid records for it.
C28_SingleSize ==
    \A o \in lim.orders_by_timestamp :
        o.id \in DOMAIN lim.orders_by_uuid
        => o.size = lim.orders_by_uuid[o.id].size

====
